---- MODULE Spec2Model ----
(***************************************************************************)
(* Model of src/real_ip.rs: the RealIp / RealIpPrivacyMask extractors, the *)
(* RealIpService middleware and the header resolver get_ip_from_parts.     *)
(*                                                                         *)
(* Header values are byte strings (sequences of 0..255), addresses are     *)
(* records [v, w]: v = 4 with four octets, v = 6 with eight 16-bit         *)
(* segments, and v = 0 for Option::None.                                   *)
(***************************************************************************)
EXTENDS Integers, Sequences, FiniteSets, TLC

VARIABLES
    tokio,       \* cfg(feature = "tokio"): the ConnectInfo fallback is compiled in
    layered,     \* the service stack contains RealIpLayer
    recv,        \* the request parts as they arrived (never modified)
    parts,       \* the request parts now: [headers, peer, ext]
                 \*   headers: header name -> its values, in insertion order
                 \*   peer: extensions.get::<ConnectInfo<SocketAddr>>(), as an address
                 \*   ext: extensions.get::<RealIp>()
    stage,       \* "recv": request at RealIpService::call; "inner": at the inner stage
    scans,       \* number of runs of get_ip_from_parts on this request
    innerReqs,   \* the requests handed to self.0.call, in order
    nextr,       \* number of extractions performed by the inner stage
    last         \* the latest extraction: its kind, the parts it saw, its result

vars == <<tokio, layered, recv, parts, stage, scans, innerReqs, nextr, last>>

----------------------------------------------------------------------------
(* Bytes and strings *)

\* The printable ASCII characters, in code order from 32 (space) to 126 (~).
\* The quote, the parentheses, the star, the backslash and the backtick are
\* spelled out, and no header value used below contains them.
AsciiTable ==
    <<" ", "!", "dquote", "#", "$", "%", "&", "'", "lparen", "rparen", "star", "+", ",", "-", ".", "/",
      "0", "1", "2", "3", "4", "5", "6", "7", "8", "9", ":", ";", "<", "=", ">", "?",
      "@", "A", "B", "C", "D", "E", "F", "G", "H", "I", "J", "K", "L", "M", "N", "O",
      "P", "Q", "R", "S", "T", "U", "V", "W", "X", "Y", "Z", "[", "backslash", "]", "^", "_",
      "backtick", "a", "b", "c", "d", "e", "f", "g", "h", "i", "j", "k", "l", "m", "n", "o",
      "p", "q", "r", "s", "t", "u", "v", "w", "x", "y", "z", "{", "|", "}", "~">>

Ord(c) == 31 + (CHOOSE i \in DOMAIN AsciiTable : AsciiTable[i] = c)

\* The byte string of a tuple of characters.
Str(cs) == [i \in DOMAIN cs |-> Ord(cs[i])]

COMMA == Ord(",")
COLON == Ord(":")
DOT == Ord(".")

None == [v |-> 0, w |-> <<>>]
V4(a, b, c, d) == [v |-> 4, w |-> <<a, b, c, d>>]
V6(g) == [v |-> 6, w |-> g]

\* HeaderValue::to_str succeeds iff every byte is visible ASCII or a tab.
is_visible_ascii(b) == (b >= 32 /\ b < 127) \/ b = 9

to_str_ok(s) == \A i \in DOMAIN s : is_visible_ascii(s[i])

\* Index of the first byte of s that is in delims, 0 when there is none.
FindFirst(s, delims) ==
    IF \E i \in DOMAIN s : s[i] \in delims
    THEN CHOOSE i \in DOMAIN s : s[i] \in delims /\ \A j \in 1..(i - 1) : s[j] \notin delims
    ELSE 0

\* str::split(&[..]): the segments of s between delimiters, in order.
RECURSIVE Split(_, _)
SplitAt(s, delims, i) ==
    IF i = 0 THEN <<s>>
    ELSE <<SubSeq(s, 1, i - 1)>> \o Split(SubSeq(s, i + 1, Len(s)), delims)

Split(s, delims) == SplitAt(s, delims, FindFirst(s, delims))

\* char::is_whitespace on ASCII.
IsWhitespace(b) == b \in {9, 10, 11, 12, 13, 32}

\* str::trim
Trim(s) ==
    IF \A i \in DOMAIN s : IsWhitespace(s[i]) THEN <<>>
    ELSE LET a == CHOOSE i \in DOMAIN s :
                      ~IsWhitespace(s[i]) /\ \A j \in 1..(i - 1) : IsWhitespace(s[j])
             b == CHOOSE i \in DOMAIN s :
                      ~IsWhitespace(s[i]) /\ \A j \in (i + 1)..Len(s) : IsWhitespace(s[j])
         IN  SubSeq(s, a, b)

----------------------------------------------------------------------------
(* IpAddr::from_str *)

IsDigit(b) == b >= 48 /\ b <= 57

IsHexDigit(b) == IsDigit(b) \/ (b >= 97 /\ b <= 102) \/ (b >= 65 /\ b <= 70)

HexVal(b) == IF IsDigit(b) THEN b - 48 ELSE IF b >= 97 THEN b - 87 ELSE b - 55

RECURSIVE NumVal(_, _)
NumVal(s, radix) ==
    IF s = <<>> THEN 0
    ELSE NumVal(SubSeq(s, 1, Len(s) - 1), radix) * radix + HexVal(s[Len(s)])

\* read_number(10, Some(3), false) into a u8: one to three digits, no leading
\* zero on a longer number, value at most 255.
IsOctet(s) ==
    /\ Len(s) >= 1 /\ Len(s) <= 3
    /\ \A i \in DOMAIN s : IsDigit(s[i])
    /\ (Len(s) > 1 => s[1] # 48)
    /\ NumVal(s, 10) <= 255

\* read_number(16, Some(4), true) into a u16: one to four hex digits.
IsHextet(s) ==
    /\ Len(s) >= 1 /\ Len(s) <= 4
    /\ \A i \in DOMAIN s : IsHexDigit(s[i])

\* read_ipv4_addr over the whole input: four octets separated by dots.
IsOctets(p) == Len(p) = 4 /\ \A i \in 1..4 : IsOctet(p[i])

IsIpv4(s) == IsOctets(Split(s, {DOT}))

OctetVals(p) == [i \in 1..4 |-> NumVal(p[i], 10)]

Ipv4Octets(s) == OctetVals(Split(s, {DOT}))

\* Position of the first "::" of s, 0 when there is none.
FindDoubleColon(s) ==
    IF \E i \in 1..(Len(s) - 1) : s[i] = COLON /\ s[i + 1] = COLON
    THEN CHOOSE i \in 1..(Len(s) - 1) :
             /\ s[i] = COLON /\ s[i + 1] = COLON
             /\ \A j \in 1..(i - 1) : ~(s[j] = COLON /\ s[j + 1] = COLON)
    ELSE 0

\* The two 16-bit groups of an embedded IPv4 address with octets o.
EmbeddedGroups(o) == <<o[1] * 256 + o[2], o[3] * 256 + o[4]>>

BadGroups == <<-1>>

\* read_groups on the colon-separated parts p: the 16-bit groups of a run of at
\* most `limit` groups, whose last two groups may be written as an embedded
\* IPv4 address; BadGroups when the run is not of that form.
GroupsOf(p, limit) ==
    IF Len(p) <= limit /\ \A i \in 1..Len(p) : IsHextet(p[i])
    THEN [i \in 1..Len(p) |-> NumVal(p[i], 16)]
    ELSE IF /\ Len(p) + 1 <= limit
            /\ \A i \in 1..(Len(p) - 1) : IsHextet(p[i])
            /\ IsIpv4(p[Len(p)])
    THEN [i \in 1..(Len(p) - 1) |-> NumVal(p[i], 16)]
             \o EmbeddedGroups(Ipv4Octets(p[Len(p)]))
    ELSE BadGroups

Groups(s, limit) == IF s = <<>> THEN <<>> ELSE GroupsOf(Split(s, {COLON}), limit)

\* head ++ zeros ++ tail, <<>> when the tail is not a run of groups.
JoinGroups(head, tail) ==
    IF tail = BadGroups THEN <<>>
    ELSE head \o [i \in 1..(8 - Len(head) - Len(tail)) |-> 0] \o tail

\* The address with groups `head` before the "::" at dc.  An embedded IPv4
\* address before the "::" is rejected.
AfterHead(s, dc, head) ==
    IF head = BadGroups \/ (\E i \in 1..(dc - 1) : s[i] = DOT) THEN <<>>
    ELSE JoinGroups(head, Groups(SubSeq(s, dc + 2, Len(s)), 7 - Len(head)))

EightGroups(g) == IF Len(g) = 8 THEN g ELSE <<>>

Ipv6At(s, dc) ==
    IF dc = 0 THEN EightGroups(Groups(s, 8))
    ELSE AfterHead(s, dc, Groups(SubSeq(s, 1, dc - 1), 7))

\* read_ipv6_addr over the whole input: the eight segments, <<>> when invalid.
Ipv6Segments(s) == Ipv6At(s, FindDoubleColon(s))

V6OrNone(g) == IF g # <<>> THEN V6(g) ELSE None

\* IpAddr::from_str: an IPv4 literal, else an IPv6 literal, else Err (None).
IpAddr_from_str(s) ==
    IF IsIpv4(s) THEN [v |-> 4, w |-> Ipv4Octets(s)]
    ELSE V6OrNone(Ipv6Segments(s))

----------------------------------------------------------------------------
(* get_ip_from_parts *)

\* parse_ip without the trim.
parse_ip_NoTrim(s) ==
    IF ~to_str_ok(s) THEN None
    ELSE IpAddr_from_str(Head(Split(s, {COMMA, COLON})))

\* parse_ip splitting on commas only.
parse_ip_CommaOnly(s) ==
    IF ~to_str_ok(s) THEN None
    ELSE IpAddr_from_str(Trim(Head(Split(s, {COMMA}))))

\* parse_ip: to_str, the first segment of split(&[',', ':']), trimmed, parsed.
parse_ip(s) ==
    IF ~to_str_ok(s) THEN None
    ELSE IpAddr_from_str(Trim(Head(Split(s, {COMMA, COLON}))))

\* The table with x-forwarded-for ahead of x-real-ip.
HEADERS_Swapped ==
    <<"cf-connecting-ip", "x-cluster-client-ip", "fly-client-ip", "fastly-client-ip",
      "cloudfront-viewer-address", "x-forwarded-for", "x-real-ip",
      "x-original-forwarded-for", "true-client-ip", "client-ip">>

HEADERS ==
    <<"cf-connecting-ip", "x-cluster-client-ip", "fly-client-ip", "fastly-client-ip",
      "cloudfront-viewer-address", "x-real-ip", "x-forwarded-for",
      "x-original-forwarded-for", "true-client-ip", "client-ip">>

\* HeaderMap::get(name).and_then(parse_ip): the first value of the header, parsed.
HeaderIp(h, name) == IF h[name] = <<>> THEN None ELSE parse_ip(h[name][1])

\* for header in &HEADERS { .. return Some(..) }, from table index i on.
RECURSIVE ScanHeaders(_, _)
\* Option::or_else
OrElse(r, rest) == IF r # None THEN r ELSE rest

ScanHeaders(h, i) ==
    IF i > Len(HEADERS) THEN None
    ELSE OrElse(HeaderIp(h, HEADERS[i]), ScanHeaders(h, i + 1))

\* The peer fallback compiled in whatever the feature.
PeerFallback_Always(p) == p.peer

\* if let Some(info) = extensions.get::<ConnectInfo<SocketAddr>>(), under
\* cfg(feature = "tokio")
PeerFallback(p) == IF tokio /\ p.peer # None THEN p.peer ELSE None

\* The resolver consulting the peer before the headers.
get_ip_from_parts_PeerFirst(p) == OrElse(PeerFallback(p), ScanHeaders(p.headers, 1))

get_ip_from_parts(p) == OrElse(ScanHeaders(p.headers, 1), PeerFallback(p))

----------------------------------------------------------------------------
(* From<RealIp> for RealIpPrivacyMask *)

\* A mask of 48 bits: 0xFFFF_FFFF_FFFF_0000_0000_0000_0000_0000.
MASK_48 == [i \in 1..16 |-> IF i <= 6 THEN 255 ELSE 0]

\* 0xFFFF_FFFF_FFFF_FFFF_0000_0000_0000_0000 as sixteen big-endian bytes.
MASK == [i \in 1..16 |-> IF i <= 8 THEN 255 ELSE 0]

\* Ipv6Addr::to_bits: the u128 of the address, as sixteen big-endian bytes.
to_bits(g) == [i \in 1..16 |-> IF i % 2 = 1 THEN g[(i + 1) \div 2] \div 256
                                             ELSE g[i \div 2] % 256]

\* From<u128> for Ipv6Addr
from_bits(b) == [i \in 1..8 |-> b[2 * i - 1] * 256 + b[2 * i]]

\* x ^ y in place of x & y.
RECURSIVE BitXor(_, _)
BitXor(x, y) ==
    IF x = 0 /\ y = 0 THEN 0
    ELSE (((x % 2) + (y % 2)) % 2) + 2 * BitXor(x \div 2, y \div 2)

RECURSIVE BitAnd(_, _)
BitAnd(x, y) ==
    IF x = 0 \/ y = 0 THEN 0
    ELSE (x % 2) * (y % 2) + 2 * BitAnd(x \div 2, y \div 2)

\* u128 & u128
BitAnd128(x, y) == [i \in 1..16 |-> BitAnd(x[i], y[i])]

PrivacyMask(ip) ==
    IF ip.v = 4 THEN ip
    ELSE V6(from_bits(BitAnd128(to_bits(ip.w), MASK)))

----------------------------------------------------------------------------
(* Extractors and the service *)

\* Ok(ip) / Err(IpAddrRejection) of a resolver result r, after one scan.
Resolved(r, p) == [ok |-> r # None, ip |-> r, scanned |-> 1, parts |-> p]

\* The extractor ignoring the stored address.
RealIp_from_request_parts_Rescan(p) == Resolved(get_ip_from_parts(p), p)

\* RealIp::from_request_parts: [ok, ip, scanned, parts]
RealIp_from_request_parts(p) ==
    IF p.ext # None
    THEN [ok |-> TRUE, ip |-> p.ext, scanned |-> 0, parts |-> p]
    ELSE Resolved(get_ip_from_parts(p), p)

\* Option<RealIp>::map(Into::into)
MaskSome(r) == IF r # None THEN PrivacyMask(r) ELSE None

\* RealIpPrivacyMask::from_request_parts
RealIpPrivacyMask_from_request_parts(p) ==
    IF p.ext # None
    THEN [ok |-> TRUE, ip |-> PrivacyMask(p.ext), scanned |-> 0, parts |-> p]
    ELSE Resolved(MaskSome(get_ip_from_parts(p)), p)

\* if let Some(ip) = .. { parts.extensions.insert(ip) }
InsertSome(p, r) == IF r # None THEN [p EXCEPT !.ext = r] ELSE p

\* self.0.call(Request::from_parts(parts, body))
CallInner(q) == [inner |-> <<q>>, scanned |-> 1]

\* The service calling the inner stage without storing the address.
RealIpService_call_NoInsert(p) == CallInner(p)

\* The service returning early when nothing was resolved.
RealIpService_call_SkipOnNone(p) ==
    IF get_ip_from_parts(p) = None THEN [inner |-> <<>>, scanned |-> 1]
    ELSE CallInner(InsertSome(p, get_ip_from_parts(p)))

\* RealIpService::call: the requests given to the inner service, in order.
RealIpService_call(p) == CallInner(InsertSome(p, get_ip_from_parts(p)))

----------------------------------------------------------------------------
(* Requests *)

MaxHeaders == 2       \* header entries in a request
MaxExtractions == 2   \* extractions the inner stage performs on a request
MaxPad == 1           \* whitespace bytes around a header value

AllNames == HEADERS \o <<"host">>
Names == {AllNames[i] : i \in DOMAIN AllNames}

\* The header map holding the entries e (pairs <<name index, value>>), in order.
MapOf(e) ==
    [nm \in Names |->
        LET mine == SelectSeq(e, LAMBDA x : AllNames[x[1]] = nm)
        IN  [i \in DOMAIN mine |-> mine[i][2]]]

\* The header maps of at most k entries with names AllNames[i], i in I, and
\* values in V.  Entries of different names are independent, so they are listed
\* by name index.
HeaderMaps(I, V, k) ==
    UNION {{MapOf(e) : e \in {f \in [1..n -> I \X V] :
                                  \A i \in 1..(n - 1) : f[i][1] <= f[i + 1][1]}}
           : n \in 0..k}

IP_A == Str(<<"2", "0", "3", ".", "0", ".", "1", "1", "3", ".", "7">>)
IP_B == Str(<<"7", "0", ".", "4", "1", ".", "3", ".", "1", "8">>)
ADDR_A == V4(203, 0, 113, 7)
ADDR_B == V4(70, 41, 3, 18)

IP_X == Str(<<"9", ".", "9", ".", "9", ".", "9">>)
IP_Y == Str(<<"8", ".", "8", ".", "8", ".", "8">>)
ADDR_X == V4(9, 9, 9, 9)
ADDR_Y == V4(8, 8, 8, 8)

\* a valid literal, another valid literal, a malformed value
ResolveValues == {IP_X, IP_Y, Str(<<"-">>)}

PeerV4 == V4(198, 51, 100, 9)
\* 2001:db8:85a3::8a2e:370:7334
PeerV6 == V6(<<8193, 3512, 34211, 0, 0, 35374, 880, 29492>>)

NoExtraction(p) == [kind |-> "none", pre |-> p, ok |-> FALSE, ip |-> None, scanned |-> 0]

\* A request with headers from H and transport peer from P arrives.
InitReq(H, P) ==
    /\ tokio \in BOOLEAN
    /\ layered \in BOOLEAN
    /\ \E h \in H, pe \in P : recv = [headers |-> h, peer |-> pe, ext |-> None]
    /\ parts = recv
    /\ stage = IF layered THEN "recv" ELSE "inner"
    /\ scans = 0
    /\ innerReqs = <<>>
    /\ nextr = 0
    /\ last = NoExtraction(recv)

\* cf-connecting-ip, cloudfront-viewer-address, x-forwarded-for, client-ip, host
SomeNames == {1, 5, 7, 10, 11}

\* Every request with up to two header entries, over all names, and every
\* request with up to MaxHeaders entries over SomeNames.
Init ==
    InitReq(HeaderMaps(DOMAIN AllNames, ResolveValues, 2)
                \cup HeaderMaps(SomeNames, ResolveValues, MaxHeaders),
            {None, PeerV6})

\* Requests for the address parser: one x-forwarded-for header whose value is
\* a first segment, padded with whitespace, followed by a tail.
Pad(n) == [i \in 1..n |-> 32]

Segments ==
    { IP_A,
      Str(<<"0", ".", "0", ".", "0", ".", "0">>),
      Str(<<"2", "5", "5", ".", "2", "5", "5", ".", "2", "5", "5", ".", "2", "5", "5">>),
      Str(<<"2", "5", "6", ".", "0", ".", "0", ".", "1">>),
      Str(<<"0", "1", ".", "2", ".", "3", ".", "4">>),
      Str(<<"1", ".", "2", ".", "3">>),
      Str(<<"1", ".", "2", ".", "3", ".", "4", ".", "5">>),
      Str(<<"1", ".", ".", "2", ".", "3">>),
      Str(<<"u", "n", "k", "n", "o", "w", "n">>),
      Str(<<"2", "0", "0", "1">>),
      <<>> }

PORT == Str(<<":", "4", "7", "1", "1">>)
CHAIN == Str(<<",", " ">>) \o IP_B

Tails ==
    { <<>>, CHAIN, PORT, CHAIN \o PORT,
      Str(<<",">>), Str(<<":">>),
      Str(<<":", "d", "b", "8", ":", ":", "1">>),
      Str(<<",", " ">>) \o <<233>>,         \* an obs-text byte after the delimiter
      <<9>> \o CHAIN }                      \* a tab before the delimiter

V6_LOOPBACK == Str(<<":", ":", "1">>)
V6_MAPPED == Str(<<":", ":", "f", "f", "f", "f", ":", "1", ".", "2", ".", "3", ".", "4">>)
V6_FULL == Str(<<"1", ":", "2", ":", "3", ":", "4", ":", "5", ":", "6", ":", "7", ":", "8">>)

V6Literals == {V6_LOOPBACK, V6_MAPPED, V6_FULL, Str(<<":", ":">>), Str(<<"f", "e", "8", "0", ":", ":", "1">>)}

ParseCorpus ==
    {Pad(l) \o seg \o Pad(r) \o tail :
        l \in 0..MaxPad, r \in 0..MaxPad, seg \in Segments, tail \in Tails}
    \cup {Pad(l) \o lit \o Pad(r) : l \in 0..MaxPad, r \in 0..MaxPad, lit \in V6Literals}

XFF == 7    \* table index of x-forwarded-for

InitParse == InitReq({MapOf(<<<<XFF, v>>>>) : v \in ParseCorpus}, {None, PeerV6})

\* Requests for the privacy mask: no headers, a transport peer.
SegSamples == {0, 29492, 65535}

MaskPeers ==
    {V6([i \in 1..8 |-> IF i \in S THEN x ELSE y]) :
        S \in SUBSET (1..8), x \in SegSamples, y \in SegSamples}
    \cup {PeerV6, PeerV4, V4(0, 0, 0, 0), V4(255, 255, 255, 255)}

InitMask == InitReq({MapOf(<<>>)}, MaskPeers)

----------------------------------------------------------------------------
(* Steps *)

\* The request passes through RealIpService::call, with outcome c.
CallStep(c) ==
    /\ innerReqs' = innerReqs \o c.inner
    /\ scans' = scans + c.scanned
    /\ stage' = IF c.inner # <<>> THEN "inner" ELSE "done"
    /\ parts' = IF c.inner # <<>> THEN c.inner[Len(c.inner)] ELSE parts
    /\ UNCHANGED <<tokio, layered, recv, nextr, last>>

Call == stage = "recv" /\ CallStep(RealIpService_call(parts))

\* The inner stage performs an extraction of the given kind, with outcome x.
ExtractStep(kind, x) ==
    /\ last' = [kind |-> kind, pre |-> parts, ok |-> x.ok, ip |-> x.ip,
                scanned |-> x.scanned]
    /\ parts' = x.parts
    /\ scans' = scans + x.scanned
    /\ nextr' = nextr + 1
    /\ UNCHANGED <<tokio, layered, recv, stage, innerReqs>>

\* The inner stage extracts RealIp.
ExtractRealIp ==
    /\ stage = "inner"
    /\ nextr < MaxExtractions
    /\ ExtractStep("ip", RealIp_from_request_parts(parts))

\* The inner stage extracts RealIpPrivacyMask.
ExtractPrivacyMask ==
    /\ stage = "inner"
    /\ nextr < MaxExtractions
    /\ ExtractStep("mask", RealIpPrivacyMask_from_request_parts(parts))

Next == Call \/ ExtractRealIp \/ ExtractPrivacyMask

Spec == Init /\ [][Next]_vars

SpecParse == InitParse /\ [][Next]_vars

SpecMask == InitMask /\ [][Next]_vars

----------------------------------------------------------------------------
(* Properties *)

\* The header table as the documentation lists it.
DocTable ==
    <<"cf-connecting-ip", "x-cluster-client-ip", "fly-client-ip", "fastly-client-ip",
      "cloudfront-viewer-address", "x-real-ip", "x-forwarded-for",
      "x-original-forwarded-for", "true-client-ip", "client-ip">>

\* Header i of the documented table is present and its value parses.
Valid(h, i) == HeaderIp(h, DocTable[i]) # None

AnyValid(h) == \E i \in DOMAIN DocTable : Valid(h, i)

Least(S) == CHOOSE i \in S : \A j \in S : i <= j

EarliestOf(h, S) == IF S = {} THEN None ELSE HeaderIp(h, DocTable[Least(S)])

\* The address of the earliest header of the documented table that parses.
EarliestValid(h) == EarliestOf(h, {i \in DOMAIN DocTable : Valid(h, i)})

PeerUsable(p) == tokio /\ p.peer # None

PeerOr(e, p) == IF e # None THEN e ELSE IF PeerUsable(p) THEN p.peer ELSE None

\* What resolution of the parts p is expected to yield.
Expected(p) == PeerOr(EarliestValid(p.headers), p)

\* The latest extraction was of the given kind and ran the resolver.
Fresh(kind) == last.kind = kind /\ last.pre.ext = None

\* The service has handed the request to the inner stage.
Called == layered /\ stage # "recv"

\* C1: the resolver returns the address of the earliest header of the table
\* (in the documented order) whose value parses; absent and malformed headers
\* before it are skipped, headers after it are not consulted.
C1_EarliestHeaderWins ==
    LET e == EarliestValid(recv.headers)
    IN  /\ (Fresh("ip") /\ e # None => last.ok /\ last.ip = e)
        /\ (Called /\ e # None => Len(innerReqs) = 1 /\ innerReqs[1].ext = e)

C1_Witness ==
    /\ Fresh("ip")
    /\ HeaderIp(recv.headers, "cf-connecting-ip") = ADDR_X
    /\ HeaderIp(recv.headers, "x-forwarded-for") = ADDR_Y
    /\ last.ip = ADDR_X

\* C2 as stated: a request that passes through the service has its header
\* table scanned at most once, whatever the inner stage extracts.
C2_AtMostOneScan == layered => scans <= 1

\* C2 amended: when the service resolved an address the table is scanned
\* exactly once; when it resolved none, every extraction scans it again.
C2_OneScanWhenResolved ==
    Called => IF Expected(recv) # None THEN scans = 1 ELSE scans = 1 + nextr

C2_Witness ==
    /\ Called
    /\ nextr = MaxExtractions
    /\ scans = 1
    /\ AnyValid(recv.headers)

\* C3: extraction returns the stored address when there is one, without a
\* scan, and a fresh resolution otherwise; after the service stored an address
\* every extraction returns that address and the table is scanned once.
C3_ExtractionUsesStore ==
    last.kind = "ip" =>
        LET e == Expected(recv)
        IN  /\ (last.pre.ext # None
                    => last.ok /\ last.ip = last.pre.ext /\ last.scanned = 0)
            /\ (last.pre.ext = None
                    => last.scanned = 1 /\ last.ip = e /\ last.ok = (e # None))
            /\ (Called /\ e # None
                    => last.ok /\ last.ip = innerReqs[1].ext /\ last.ip = e /\ scans = 1)

C3_Witness ==
    /\ Called
    /\ last.kind = "ip"
    /\ last.pre.ext = ADDR_Y
    /\ last.ip = ADDR_Y
    /\ nextr = 2
    /\ scans = 1

\* C4: resolution fails exactly when no table header parses and the peer
\* fallback is disabled or has no peer; the failure is a value and leaves the
\* request as it was.
C4_NotFoundIff ==
    LET none == EarliestValid(recv.headers) = None /\ ~PeerUsable(recv)
    IN  /\ parts.headers = recv.headers
        /\ parts.peer = recv.peer
        /\ (last.kind = "none" => (get_ip_from_parts(parts) = None) = none)
        /\ (Fresh("ip")
                => /\ (~last.ok) = none
                   /\ (~last.ok => last.ip = None /\ parts = last.pre))

C4_Witness ==
    /\ Fresh("ip")
    /\ ~last.ok
    /\ ~tokio
    /\ recv.peer = PeerV6
    /\ recv.headers["x-real-ip"] # <<>>

\* C5: the peer address is the result only when the fallback is enabled, a
\* peer is known and no table header parses; a header that parses wins.
C5_PeerOnlyAsFallback ==
    LET e == EarliestValid(recv.headers)
    IN  /\ (Fresh("ip") /\ e # None => last.ip = e)
        /\ (Fresh("ip") /\ e = None /\ last.ok
                => tokio /\ recv.peer # None /\ last.ip = recv.peer)
        /\ (Called /\ e # None => parts.ext = e)
        /\ (Called /\ e = None /\ parts.ext # None
                => tokio /\ recv.peer # None /\ parts.ext = recv.peer)

C5_Witness ==
    /\ Fresh("ip")
    /\ last.ip = PeerV6
    /\ recv.headers["cf-connecting-ip"] # <<>>

\* C6: the service resolves, stores the address, and then calls the inner
\* stage exactly once with the stored address already in the request; when
\* resolution fails it stores nothing and still calls the inner stage once
\* with the request as it arrived.
C6_StoreThenCallOnce ==
    /\ (layered /\ stage = "recv" => innerReqs = <<>> /\ parts = recv /\ scans = 0)
    /\ (Called
            => /\ stage = "inner"
               /\ Len(innerReqs) = 1
               /\ innerReqs[1].headers = recv.headers
               /\ innerReqs[1].peer = recv.peer
               /\ innerReqs[1].ext = Expected(recv)
               /\ scans >= 1
               /\ parts = innerReqs[1])

C6_Witness ==
    /\ Called
    /\ nextr = 0
    /\ Len(innerReqs) = 1
    /\ innerReqs[1] = recv
    /\ recv.headers["x-forwarded-for"] # <<>>

----
(* Properties of the privacy mask, under SpecMask *)

\* The address the latest extraction had before masking.
Raw == IF last.pre.ext # None THEN last.pre.ext ELSE Expected(last.pre)

Masked == last.kind = "mask" /\ last.ok

\* C7: the mask is total, leaves IPv4 unchanged, and keeps the upper four
\* segments of an IPv6 address while zeroing the lower four.
C7_MaskClearsLow64 ==
    /\ (last.kind = "mask" => last.ok = (Raw # None))
    /\ (Masked /\ Raw.v = 4 => last.ip = Raw)
    /\ (Masked /\ Raw.v = 6
            => /\ last.ip.v = 6
               /\ Len(last.ip.w) = 8
               /\ \A i \in 1..4 : last.ip.w[i] = Raw.w[i]
               /\ \A i \in 5..8 : last.ip.w[i] = 0)
    /\ (Masked /\ Raw = PeerV6 => last.ip = V6(<<8193, 3512, 34211, 0, 0, 0, 0, 0>>))

C7_Witness ==
    /\ Masked
    /\ Raw = PeerV6
    /\ last.ip = V6(<<8193, 3512, 34211, 0, 0, 0, 0, 0>>)

\* C8: masking a masked address changes nothing.
C8_MaskIdempotent == Masked => PrivacyMask(last.ip) = last.ip

C8_Witness ==
    /\ Masked
    /\ Raw.v = 6
    /\ last.ip # Raw
    /\ last.ip.w[1] = 65535

----------------------------------------------------------------------------
(* Properties of the address parser, under SpecParse *)

\* The bytes of v before its first comma or colon.
BeforeOf(v, D) == IF D = {} THEN v ELSE SubSeq(v, 1, Least(D) - 1)

BeforeDelimiter(v) == BeforeOf(v, {i \in DOMAIN v : v[i] = 44 \/ v[i] = 58})

\* The address the first segment of v denotes, if any.
FromSegment(v) == IpAddr_from_str(Trim(BeforeDelimiter(v)))

\* The first value of the x-forwarded-for header of the request.
Value == recv.headers["x-forwarded-for"][1]

HasValue == recv.headers["x-forwarded-for"] # <<>>

\* The header alone decided the latest extraction.
HeaderDecided == HasValue /\ Fresh("ip") /\ ~PeerUsable(recv)

\* C9 as stated: the parser yields A exactly when the first segment of the
\* value, trimmed, is a literal denoting A; nothing after the first delimiter
\* matters.
C9_FirstSegmentDecides ==
    /\ (HeaderDecided => last.ip = FromSegment(Value))
    /\ (HasValue /\ Called /\ ~PeerUsable(recv) => parts.ext = FromSegment(Value))

\* C9 amended: that holds of the values that are visible ASCII throughout; a
\* value with any other byte, also after the first delimiter, yields nothing.
C9_FirstSegmentOfAscii ==
    LET want == IF to_str_ok(Value) THEN FromSegment(Value) ELSE None
    IN  /\ (HasValue => parse_ip(Value) = want)
        /\ (HeaderDecided => last.ip = want /\ last.ok = (want # None))
        /\ (HasValue /\ Called /\ ~PeerUsable(recv) => parts.ext = want)
        /\ (HasValue /\ Value = IP_A \o CHAIN => parse_ip(Value) = ADDR_A)
        /\ (HasValue /\ Value = IP_A \o PORT => parse_ip(Value) = ADDR_A)

C9_Witness ==
    /\ HeaderDecided
    /\ Value = Pad(1) \o IP_A \o Pad(1) \o PORT
    /\ last.ip = ADDR_A

\* C10: no header yields an IPv6 address: a value that is an IPv6 literal
\* yields nothing, an IPv6 result comes from the transport peer, and the mask
\* leaves every header-derived address as it is.
C10_NoIpv6FromHeaders ==
    LET e == EarliestValid(recv.headers)
    IN  /\ \A i \in DOMAIN DocTable : HeaderIp(recv.headers, DocTable[i]).v # 6
        /\ (HasValue /\ IpAddr_from_str(Trim(Value)).v = 6 => parse_ip(Value) = None)
        /\ (last.kind # "none" /\ last.ip.v = 6
                => e = None /\ tokio /\ recv.peer.v = 6)
        /\ (parts.ext.v = 6 => e = None /\ tokio /\ parts.ext = recv.peer)
        /\ (last.kind = "mask" /\ e # None => last.ip = e)

C10_Witness ==
    /\ HasValue
    /\ Value = V6_LOOPBACK
    /\ last.kind = "ip"
    /\ last.ip = PeerV6
    /\ ~layered

====
